---- MODULE Spec2Model ----
(***************************************************************************)
(* Earthquake Observatory (streamlit_app.py): the cached feed loader       *)
(* load_data, the sidebar filter and the aggregated views, as a state      *)
(* machine.                                                                *)
(*                                                                         *)
(* Conventions of the model                                                *)
(*   - text is a sequence of one-character strings, so that the regular    *)
(*     expression of the country extraction is computed character by       *)
(*     character;                                                          *)
(*   - a JSON value that may be null is <<>> (null) or <<v>> (the number   *)
(*     v);                                                                 *)
(*   - instants are whole minutes since 1970-01-01T00:00Z (the feed's      *)
(*     milliseconds divided by 60000: TLC's integers are 32 bits wide);    *)
(*     the wall-clock time of the cache is in seconds;                     *)
(*   - a raised Python exception ends the run with status set to the       *)
(*     exception's name; FetchError stands for whatever requests.get or    *)
(*     r.json() raises.                                                    *)
(***************************************************************************)
EXTENDS Integers, Sequences, FiniteSets, TLC

VARIABLES
    now,            \* wall clock of the server process, seconds
    feed,           \* the endpoint's answer to the latest request
    cache,          \* the st.cache_data entry of load_data
    fetches,        \* number of requests.get calls made so far
    runs,           \* number of script runs so far
    status,         \* where the last script run ended
    df,             \* the table the run got from load_data
    year_filter,    \* value of the "Select Year" selectbox
    country_filter, \* value of the "Select Country" multiselect
    filtered_df,    \* the filtered table
    country_chart,  \* data of the by-country bar chart
    heat_df,        \* date x hour counts
    df_ts,          \* hourly time series
    place,          \* a place text handed to the country extraction
    country         \* its outcome

vars == <<now, feed, cache, fetches, runs, status, df, year_filter,
          country_filter, filtered_df, country_chart, heat_df, df_ts,
          place, country>>

----------------------------------------------------------------------------
(* Bounds of the model *)

MaxFeed == 3

MaxPlaceLen == 3

MaxRuns == 4

MaxClock == 360

(* Program constant: st.cache_data(ttl=180) *)
TTL == 180

----------------------------------------------------------------------------
(* Generic helpers *)

Null == <<>>

Some(v) == <<v>>

Max(S) == CHOOSE m \in S : \A x \in S : x <= m

Min(S) == CHOOSE m \in S : \A x \in S : m <= x

SeqsUpTo(S, n) == UNION {[1..k -> S] : k \in 0..n}

Range(s) == {s[i] : i \in 1..Len(s)}

----------------------------------------------------------------------------
(* Calendar arithmetic of pandas timestamps (proleptic Gregorian), on day  *)
(* numbers counted from 1970-01-01.                                        *)

DaysFromCivil(y, m, d) ==
    LET yy  == IF m <= 2 THEN y - 1 ELSE y
        era == yy \div 400
        yoe == yy - era * 400
        mp  == IF m > 2 THEN m - 3 ELSE m + 9
        doy == (153 * mp + 2) \div 5 + d - 1
        doe == yoe * 365 + yoe \div 4 - yoe \div 100 + doy
    IN  era * 146097 + doe - 719468

CivilFromDays(z) ==
    LET zz  == z + 719468
        era == zz \div 146097
        doe == zz - era * 146097
        yoe == (doe - doe \div 1460 + doe \div 36524 - doe \div 146096) \div 365
        doy == doe - (365 * yoe + yoe \div 4 - yoe \div 100)
        mp  == (5 * doy + 2) \div 153
        d   == doy - (153 * mp + 2) \div 5 + 1
        m   == IF mp < 10 THEN mp + 3 ELSE mp - 9
        y   == yoe + era * 400 + (IF m <= 2 THEN 1 ELSE 0)
    IN  [year |-> y, month |-> m, day |-> d]

UtcMinutes(y, m, d, hh, mm) == DaysFromCivil(y, m, d) * 1440 + hh * 60 + mm

\* 0 = Sunday; 1970-01-01 was a Thursday
Weekday(z) == (z + 4) % 7

FirstSundayFrom(z) == z + ((7 - Weekday(z)) % 7)

(* America/Chicago, rules in force since 2007: daylight time from the      *)
(* second Sunday of March 02:00 CST (08:00Z) to the first Sunday of        *)
(* November 02:00 CDT (07:00Z). The result is the UTC offset in minutes.   *)
ChicagoOffset(t) ==
    LET y        == CivilFromDays(t \div 1440).year
        dstStart == (FirstSundayFrom(DaysFromCivil(y, 3, 1)) + 7) * 1440 + 8 * 60
        dstEnd   == FirstSundayFrom(DaysFromCivil(y, 11, 1)) * 1440 + 7 * 60
    IN  IF dstStart <= t /\ t < dstEnd THEN -300 ELSE -360

----------------------------------------------------------------------------
(* Country extraction, line 43:                                            *)
(* the group of re.search for the pattern  comma, any whitespace, a group  *)
(* of any characters but newline, end of text;  or the text Unknown when   *)
(* the place holds no comma.                                               *)

NL == "\n"

Whitespace == {" ", NL}

Unknown == <<"U", "n", "k", "n", "o", "w", "n">>

\* \s* : the longest run of whitespace from position p on
RECURSIVE WsRun(_, _)
WsRun(x, p) ==
    IF p <= Len(x) /\ x[p] \in Whitespace THEN 1 + WsRun(x, p + 1) ELSE 0

\* .* : the longest run of characters other than newline from position p on
RECURSIVE DotRun(_, _)
DotRun(x, p) ==
    IF p <= Len(x) /\ x[p] # NL THEN 1 + DotRun(x, p + 1) ELSE 0

\* $ without re.MULTILINE: at the end, or before a newline that ends the text
AtEnd(x, p) == p = Len(x) + 1 \/ (p = Len(x) /\ x[p] = NL)

\* The ways the pattern matches with its comma at position i: k whitespace
\* characters, then m characters other than newline, then $.
MatchesAt(x, i) ==
    UNION {{<<k, m>> : m \in {n \in 0..DotRun(x, i + k + 1) : AtEnd(x, i + k + n + 1)}} :
              k \in 0..WsRun(x, i + 1)}

\* Both quantifiers are greedy: the first match found has the largest k and,
\* for it, the largest m.
GroupAt(x, i) ==
    LET ms == MatchesAt(x, i)
        k  == Max({km[1] : km \in ms})
        m  == Max({km[2] : km \in {c \in ms : c[1] = k}})
    IN  SubSeq(x, i + k + 1, i + k + m)

\* re.search scans from the left: the match starts at the leftmost comma
\* from which the pattern matches.
Search(x) ==
    LET starts == {i \in 1..Len(x) : x[i] = "," /\ MatchesAt(x, i) # {}}
    IN  IF starts = {} THEN [matched |-> FALSE, group |-> <<>>]
        ELSE [matched |-> TRUE, group |-> GroupAt(x, Min(starts))]

Country(x) ==
    LET found == Search(x)
    IN  IF "," \in Range(x)
        THEN IF found.matched
             THEN [outcome |-> "ok", value |-> found.group]
             ELSE [outcome |-> "AttributeError", value |-> <<>>]
        ELSE [outcome |-> "ok", value |-> Unknown]

----------------------------------------------------------------------------
(* load_data, lines 19-44 *)

\* lines 24-36: the loop over the features; coordinates are
\* <<longitude, latitude, depth>>
RECURSIVE RecordsTruthy(_)
RecordsTruthy(data) ==
    IF data = <<>> THEN <<>>
    ELSE LET p == Head(data).properties
             c == Head(data).geometry.coordinates
         IN  IF p.mag \in {Null, Some(0)} \/ c[3] \in {Null, Some(0)}
             THEN RecordsTruthy(Tail(data))
             ELSE <<[Place     |-> p.place,
                     Magnitude |-> p.mag[1],
                     Time_UTC  |-> p.time,
                     Depth_km  |-> c[3][1],
                     Longitude |-> c[1],
                     Latitude  |-> c[2]]>> \o RecordsTruthy(Tail(data))

RECURSIVE Records(_)
Records(data) ==
    IF data = <<>> THEN <<>>
    ELSE LET p == Head(data).properties
             c == Head(data).geometry.coordinates
         IN  IF p.mag = Null \/ c[3] = Null
             THEN Records(Tail(data))
             ELSE <<[Place     |-> p.place,
                     Magnitude |-> p.mag[1],
                     Time_UTC  |-> p.time,
                     Depth_km  |-> c[3][1],
                     Longitude |-> c[1],
                     Latitude  |-> c[2]]>> \o Records(Tail(data))

\* line 39: tz_localize(UTC).tz_convert(America/Chicago): the same instant,
\* carrying the zone's offset at that instant
TimeCentral(t) == [instant |-> t, utcoffset |-> ChicagoOffset(t)]

\* the wall-clock minute count a zone-aware timestamp shows
Wall(tc) == tc.instant + tc.utcoffset

\* line 40: .dt.hour
HourOf(tc) == (Wall(tc) % 1440) \div 60

\* line 41: .dt.date
DateOf(tc) == CivilFromDays(Wall(tc) \div 1440)

\* line 42: .dt.year
YearOfUtc(r) == CivilFromDays(r.Time_UTC \div 1440).year

YearOf(r) == DateOf(TimeCentral(r.Time_UTC)).year

\* lines 39-43: the derived columns of one row
Enrich(r) ==
    [Place        |-> r.Place,
     Magnitude    |-> r.Magnitude,
     Time_UTC     |-> r.Time_UTC,
     Depth_km     |-> r.Depth_km,
     Longitude    |-> r.Longitude,
     Latitude     |-> r.Latitude,
     Time_Central |-> TimeCentral(r.Time_UTC),
     Hour         |-> HourOf(TimeCentral(r.Time_UTC)),
     Date         |-> DateOf(TimeCentral(r.Time_UTC)),
     Year         |-> YearOf(r),
     Country      |-> Country(r.Place).value]

\* lines 22-44 on a parsed response body. pd.DataFrame of an empty list has
\* no columns, so line 39 raises KeyError; a place with a comma from which
\* the pattern does not match makes line 43 raise AttributeError.
LoadData(data) ==
    LET records == Records(data)
    IN  IF records = <<>>
        THEN [outcome |-> "KeyError", df |-> <<>>]
        ELSE IF \E i \in 1..Len(records) : Country(records[i].Place).outcome # "ok"
        THEN [outcome |-> "AttributeError", df |-> <<>>]
        ELSE [outcome |-> "ok",
              df |-> [i \in 1..Len(records) |-> Enrich(records[i])]]

----------------------------------------------------------------------------
(* Sidebar filter, lines 50-55 *)

\* line 50: the options of the year selectbox
YearOptions(t) == {t[i].Year : i \in 1..Len(t)}

\* line 51: the options of the country multiselect
CountryOptions(t) == {t[i].Country : i \in 1..Len(t)}

Japan == <<"J", "a", "p", "a", "n">>

Indonesia == <<"I", "n", "d", "o", "n", "e", "s", "i", "a">>

Chile == <<"C", "h", "i", "l", "e">>

\* line 51: default=
DefaultCountries == {Japan, Indonesia, Chile}

FilterAlwaysIsin(t, y, cs) ==
    LET byYear == SelectSeq(t, LAMBDA r : r.Year = y)
    IN  SelectSeq(byYear, LAMBDA r : r.Country \in cs)

\* lines 53-55
Filter(t, y, cs) ==
    LET byYear == SelectSeq(t, LAMBDA r : r.Year = y)
    IN  IF cs # {}
        THEN SelectSeq(byYear, LAMBDA r : r.Country \in cs)
        ELSE byYear

----------------------------------------------------------------------------
(* Aggregated views, lines 77-112 *)

\* the distinct countries of a sequence of countries, in order of first
\* appearance (the order in which the aggregation meets its groups)
RECURSIVE FirstSeen(_)
FirstSeen(cs) ==
    IF cs = <<>> THEN <<>>
    ELSE LET before == FirstSeen(SubSeq(cs, 1, Len(cs) - 1))
         IN  IF cs[Len(cs)] \in Range(before) THEN before
             ELSE Append(before, cs[Len(cs)])

\* count(): the rows of a group
CountOf(t, c) == Cardinality({i \in 1..Len(t) : t[i].Country = c})

\* sort by descending count; entries of equal count keep their order
RECURSIVE SortDesc(_)
SortDesc(es) ==
    IF es = <<>> THEN <<>>
    ELSE LET sorted == SortDesc(SubSeq(es, 1, Len(es) - 1))
             e      == es[Len(es)]
             k      == Cardinality({i \in 1..Len(sorted) : sorted[i].Count >= e.Count})
         IN  SubSeq(sorted, 1, k) \o <<e>> \o SubSeq(sorted, k + 1, Len(sorted))

CountryGroups(t) ==
    LET cs == FirstSeen([i \in 1..Len(t) |-> t[i].Country])
    IN  [j \in 1..Len(cs) |-> [Country |-> cs[j], Count |-> CountOf(t, cs[j])]]

CountryCountsUnsorted(t) == CountryGroups(t)

\* lines 77-86: y = Country, x = count(), sort = -x : the bars top to bottom
CountryCounts(t) == SortDesc(CountryGroups(t))

\* the integers of a finite set in ascending order
RECURSIVE Ascending(_)
Ascending(S) ==
    IF S = {} THEN <<>> ELSE <<Min(S)>> \o Ascending(S \ {Min(S)})

\* the (Date, Hour) group of a row, as a number that orders the groups
HeatKey(r) == DaysFromCivil(r.Date.year, r.Date.month, r.Date.day) * 24 + r.Hour

\* line 91: groupby([Date, Hour]).size().reset_index(name=Count)
HeatCounts(t) ==
    LET ks == Ascending({HeatKey(t[i]) : i \in 1..Len(t)})
    IN  [j \in 1..Len(ks) |->
            LET rows == {i \in 1..Len(t) : HeatKey(t[i]) = ks[j]}
                r    == t[Min(rows)]
            IN  [Date |-> r.Date, Hour |-> r.Hour, Count |-> Cardinality(rows)]]

\* Timestamp.normalize(): midnight of the timestamp's local day, as an instant
StartOfDay(tc) ==
    LET wall == (Wall(tc) \div 1440) * 1440
    IN  CHOOSE inst \in {wall + 300, wall + 360} : inst + ChicagoOffset(inst) = wall

\* instants of the rows
Instants(t) == {t[i].Time_Central.instant : i \in 1..Len(t)}

\* resample(1H): bin edges from the first to the last row, anchored at the
\* start of the first row's day, closed on the left, labelled on the left
FirstEdge(t) ==
    LET first  == Min(Instants(t))
        origin == StartOfDay(TimeCentral(first))
    IN  first - ((first - origin) % 60)

LastEdge(t) ==
    LET last   == Max(Instants(t))
        origin == StartOfDay(TimeCentral(Min(Instants(t))))
        loffset == (last - origin) % 60
    IN  IF loffset > 0 THEN last - loffset + 60 ELSE last + 60

InBin(t, edge) == {i \in 1..Len(t) : edge <= t[i].Time_Central.instant
                                      /\ t[i].Time_Central.instant < edge + 60}

Bins(t) ==
    [k \in 1..((LastEdge(t) - FirstEdge(t)) \div 60) |->
        LET edge == FirstEdge(t) + 60 * (k - 1)
        IN  [Time_Central |-> TimeCentral(edge), Count |-> Cardinality(InBin(t, edge))]]

HourlySeriesOccupied(t) ==
    IF t = <<>> THEN <<>> ELSE SelectSeq(Bins(t), LAMBDA b : b.Count > 0)

\* line 112: set_index(Time_Central).resample(1H).size().reset_index(name=Count)
HourlySeries(t) == IF t = <<>> THEN <<>> ELSE Bins(t)

----------------------------------------------------------------------------
(* Inputs: features of the feed, lines 25-27 *)

Feature(pl, mag, lon, lat, depth, time) ==
    [properties |-> [place |-> pl, mag |-> mag, time |-> time],
     geometry   |-> [coordinates |-> <<lon, lat, depth>>]]

Near(c) == <<"X", ",", " ">> \o c

PlaceNoComma == <<"S", "e", "a">>

PlaceMulti == <<"A", ",", " ", "B", ",", " ", "C">>

\* around the turn of the year: 23:30 and 00:10 and 02:59 Central
NewYearTimes ==
    {UtcMinutes(2024, 1, 1, 5, 30), UtcMinutes(2024, 1, 1, 6, 10),
     UtcMinutes(2024, 1, 1, 8, 59)}

\* around the start of daylight time: 01:50 CST, 03:10 CDT, 05:00 CDT
SpringTimes ==
    {UtcMinutes(2024, 3, 10, 7, 50), UtcMinutes(2024, 3, 10, 8, 10),
     UtcMinutes(2024, 3, 10, 10, 0)}

\* around its end: 01:30 CDT, 01:30 CST, 03:05 CST
FallTimes ==
    {UtcMinutes(2024, 11, 3, 6, 30), UtcMinutes(2024, 11, 3, 7, 30),
     UtcMinutes(2024, 11, 3, 9, 5)}

\* null and zero magnitudes and null depths
NormFeatures ==
    {Feature(PlaceMulti, m, 140, 35, d, UtcMinutes(2024, 1, 1, 6, 10)) :
        m \in {Null, Some(0), Some(5)}, d \in {Null, Some(10)}}

\* several countries, on both sides of the turn of the year
FilterFeatures ==
    {Feature(pl, Some(5), 140, 35, Some(10), t) :
        pl \in {Near(Japan), Near(Chile), PlaceNoComma},
        t \in {UtcMinutes(2024, 1, 1, 5, 30), UtcMinutes(2024, 1, 1, 6, 10)}}

TimeFeatures(T) == {Feature(Near(Japan), Some(5), 140, 35, Some(10), t) : t \in T}

PipeFeeds ==
    UNION {SeqsUpTo(F, MaxFeed) :
              F \in {NormFeatures, FilterFeatures, TimeFeatures(NewYearTimes),
                     TimeFeatures(SpringTimes), TimeFeatures(FallTimes)}}

YearChoices == {2023, 2024}

CountryChoices == {{}, {Japan}, {Japan, Chile}, {Unknown}}

Body(data) == [ok |-> TRUE, features |-> data]

\* requests.get raised, or the body is not JSON
FetchFailure == [ok |-> FALSE, features |-> <<>>]

NoEntry == [has |-> FALSE, value |-> <<>>, created |-> 0]

NotExtracted == [outcome |-> "none", value |-> <<>>]

----------------------------------------------------------------------------
(* The stages of the script on one feed *)

PipeInit ==
    /\ now = 0
    /\ feed \in {Body(data) : data \in PipeFeeds}
    /\ cache = NoEntry
    /\ fetches = 0
    /\ runs = 0
    /\ status = "start"
    /\ df = <<>>
    /\ year_filter = 0
    /\ country_filter = {}
    /\ filtered_df = <<>>
    /\ country_chart = <<>>
    /\ heat_df = <<>>
    /\ df_ts = <<>>
    /\ place = <<>>
    /\ country = NotExtracted

\* lines 22-44
Load ==
    /\ status = "start"
    /\ df' = LoadData(feed.features).df
    /\ status' = IF LoadData(feed.features).outcome = "ok" THEN "loaded"
                 ELSE LoadData(feed.features).outcome
    /\ UNCHANGED <<now, feed, cache, fetches, runs, year_filter, country_filter,
                   filtered_df, country_chart, heat_df, df_ts, place, country>>

\* lines 53-55
ApplyFilter ==
    /\ status = "loaded"
    /\ \E y \in YearChoices, cs \in CountryChoices :
          /\ year_filter' = y
          /\ country_filter' = cs
          /\ filtered_df' = Filter(df, y, cs)
    /\ status' = "filtered"
    /\ UNCHANGED <<now, feed, cache, fetches, runs, df, country_chart, heat_df,
                   df_ts, place, country>>

\* as Aggregate, with the index set in place: the table loses its rows' order
AggregateInPlace ==
    /\ status \in {"filtered", "rendered"}
    /\ country_chart' = CountryCounts(filtered_df)
    /\ heat_df' = HeatCounts(filtered_df)
    /\ df_ts' = HourlySeries(filtered_df)
    /\ filtered_df' = [i \in 1..Len(filtered_df) |->
                          filtered_df[Len(filtered_df) + 1 - i]]
    /\ status' = "rendered"
    /\ UNCHANGED <<now, feed, cache, fetches, runs, df, year_filter,
                   country_filter, place, country>>

\* lines 77-112: the three views; each call returns a new frame
Aggregate ==
    /\ status \in {"filtered", "rendered"}
    /\ country_chart' = CountryCounts(filtered_df)
    /\ heat_df' = HeatCounts(filtered_df)
    /\ df_ts' = HourlySeries(filtered_df)
    /\ status' = "rendered"
    /\ UNCHANGED <<now, feed, cache, fetches, runs, df, year_filter,
                   country_filter, filtered_df, place, country>>

PipeNext == Load \/ ApplyFilter \/ Aggregate

SpecPipe == PipeInit /\ [][PipeNext]_vars

----------------------------------------------------------------------------
(* The dashboard: script runs against the cache of load_data *)

\* responses of the endpoint
Responses ==
    {FetchFailure,
     Body(<<>>),
     Body(<<Feature(Near(Japan), Null, 140, 35, Some(10), UtcMinutes(2024, 1, 1, 6, 10))>>),
     Body(<<Feature(Near(Japan), Some(6), 140, 35, Some(10), UtcMinutes(2024, 1, 1, 6, 10))>>),
     Body(<<Feature(Near(Chile), Some(4), -70, -33, Some(20), UtcMinutes(2024, 1, 1, 5, 30)),
            Feature(Near(Japan), Some(5), 140, 35, Some(10), UtcMinutes(2024, 1, 1, 6, 10)),
            Feature(Near(Indonesia), Some(5), 107, -7, Some(30), UtcMinutes(2024, 1, 1, 8, 59))>>)}

\* seconds between two events of the model
TickSteps == {89, 90}

Init ==
    /\ now = 0
    /\ feed = Body(<<>>)
    /\ cache = NoEntry
    /\ fetches = 0
    /\ runs = 0
    /\ status = "start"
    /\ df = <<>>
    /\ year_filter = 0
    /\ country_filter = {}
    /\ filtered_df = <<>>
    /\ country_chart = <<>>
    /\ heat_df = <<>>
    /\ df_ts = <<>>
    /\ place = <<>>
    /\ country = NotExtracted

Tick ==
    /\ \E d \in TickSteps : now + d <= MaxClock /\ now' = now + d
    /\ UNCHANGED <<feed, cache, fetches, runs, status, df, year_filter,
                   country_filter, filtered_df, country_chart, heat_df, df_ts,
                   place, country>>

CacheValidInclusive == cache.has /\ now <= cache.created + TTL

\* line 18: the entry is served while less than ttl seconds old
CacheValid == cache.has /\ now < cache.created + TTL

\* a run that an exception ended: nothing below the raising line is bound
Abort(exception) ==
    /\ status' = exception
    /\ df' = <<>>
    /\ year_filter' = 0
    /\ country_filter' = {}
    /\ filtered_df' = <<>>
    /\ country_chart' = <<>>
    /\ heat_df' = <<>>
    /\ df_ts' = <<>>

\* what the multiselect can return: its default while untouched, or what the
\* user picked among the options (here nothing, or one country)
Selections(t) == {DefaultCountries, {}} \cup {{c} : c \in CountryOptions(t)}

\* lines 46-121 with the table t that load_data returned. The multiselect
\* raises StreamlitAPIException when a default value is not among its options.
Script(t) ==
    \E y \in YearOptions(t), cs \in Selections(t) :
        LET shown == Filter(t, y, cs)
        IN  IF cs \subseteq CountryOptions(t)
            THEN /\ status' = "rendered"
                 /\ df' = t
                 /\ year_filter' = y
                 /\ country_filter' = cs
                 /\ filtered_df' = shown
                 /\ country_chart' = CountryCounts(shown)
                 /\ heat_df' = HeatCounts(shown)
                 /\ df_ts' = HourlySeries(shown)
            ELSE /\ status' = "StreamlitAPIException"
                 /\ df' = t
                 /\ year_filter' = y
                 /\ country_filter' = {}
                 /\ filtered_df' = <<>>
                 /\ country_chart' = <<>>
                 /\ heat_df' = <<>>
                 /\ df_ts' = <<>>

\* load_data on a cache miss, lines 20-44, with the endpoint answering r
Fetch(r) ==
    LET loaded == LoadData(r.features)
    IN  /\ feed' = r
        /\ fetches' = fetches + 1
        /\ IF ~r.ok
           THEN Abort("FetchError") /\ UNCHANGED cache
           ELSE IF loaded.outcome # "ok"
           THEN Abort(loaded.outcome) /\ UNCHANGED cache
           ELSE /\ cache' = [has |-> TRUE, value |-> loaded.df, created |-> now]
                /\ Script(loaded.df)

\* one run of the script, lines 12-121; load_data goes through the cache
Rerun ==
    /\ runs < MaxRuns
    /\ runs' = runs + 1
    /\ IF CacheValid
       THEN Script(cache.value) /\ UNCHANGED <<feed, cache, fetches>>
       ELSE \E r \in Responses : Fetch(r)
    /\ UNCHANGED <<now, place, country>>

Next == Tick \/ Rerun

Spec == Init /\ [][Next]_vars

----------------------------------------------------------------------------
(* The country extraction on its own *)

Alphabet == {"A", "B", ",", " ", NL}

PlaceTokyo ==
    <<"1", "0", "k", "m", " ", "S", "E", " ", "o", "f", " ",
      "T", "o", "k", "y", "o", ",", " ">> \o Japan

PlaceUnknownRegion == Unknown \o <<" ", "R", "e", "g", "i", "o", "n">>

Places ==
    SeqsUpTo(Alphabet, MaxPlaceLen) \cup {PlaceTokyo, PlaceUnknownRegion, PlaceMulti}

CountryInit ==
    /\ now = 0
    /\ feed = Body(<<>>)
    /\ cache = NoEntry
    /\ fetches = 0
    /\ runs = 0
    /\ status = "start"
    /\ df = <<>>
    /\ year_filter = 0
    /\ country_filter = {}
    /\ filtered_df = <<>>
    /\ country_chart = <<>>
    /\ heat_df = <<>>
    /\ df_ts = <<>>
    /\ place \in Places
    /\ country = NotExtracted

\* line 43 on one place
ExtractCountry ==
    /\ country = NotExtracted
    /\ country' = Country(place)
    /\ UNCHANGED <<now, feed, cache, fetches, runs, status, df, year_filter,
                   country_filter, filtered_df, country_chart, heat_df, df_ts,
                   place>>

SpecCountry == CountryInit /\ [][ExtractCountry]_vars

----------------------------------------------------------------------------
(* Properties *)

Built == status \in {"loaded", "filtered", "rendered"}

Filtered == status \in {"filtered", "rendered"}

\* the features of the response that have a magnitude and a depth
Usable == {i \in 1..Len(feed.features) :
              /\ feed.features[i].properties.mag # Null
              /\ feed.features[i].geometry.coordinates[3] # Null}

\* the rows of the table that the filter values select
Selected == {i \in 1..Len(df) :
                /\ df[i].Year = year_filter
                /\ country_filter # {} => df[i].Country \in country_filter}

\* the position an element i of a set of indices has among them
RankIn(S, i) == Cardinality({k \in S : k <= i})

(* C1: a run made less than 180 seconds after the fetch that created the   *)
(* cached table makes no fetch, leaves the entry alone and gets that       *)
(* table; any other run makes exactly one fetch.                           *)
C1_CacheTimeToLive ==
    [][runs' = runs + 1 =>
        IF cache.has /\ now - cache.created < 180
        THEN fetches' = fetches /\ cache' = cache /\ df' = cache.value
        ELSE fetches' = fetches + 1]_vars

\* three runs, two fetches: one run was served from the cache, and the
\* entry in the cache was made 180 seconds or more after the start
C1_Witness ==
    /\ runs = 3
    /\ fetches = 2
    /\ cache.has
    /\ cache.created >= 180
    /\ status = "rendered"

(* C2: when the fetch of a run fails and an earlier fetch had put a table  *)
(* in the cache, the run still has a table to show.                        *)
C2_PriorTableDisplayable ==
    (status = "FetchError" /\ cache.has) => df # <<>>

(* C3: when no feature of the response is usable, loading and rendering    *)
(* do not fail: the run goes on with an empty table.                       *)
C3_EmptyFeedDegrades ==
    (status # "start" /\ Usable = {}) => (Built /\ df = <<>>)

(* C4: the country of a place is the trimmed text after its last comma,    *)
(* and Unknown when it has no comma.                                       *)
C4_AfterLastComma ==
    country # NotExtracted =>
        LET commas == {i \in 1..Len(place) : place[i] = ","}
            inked  == {i \in 1..Len(place) :
                          i > Max(commas) /\ place[i] \notin Whitespace}
        IN  country =
              [outcome |-> "ok",
               value   |-> IF commas = {} THEN Unknown
                           ELSE IF inked = {} THEN <<>>
                           ELSE SubSeq(place, Min(inked), Max(inked))]

(* C5: the table has one row for each usable feature, in the feed's order, *)
(* with place, magnitude, time, depth, longitude and latitude copied, and  *)
(* no other row.                                                           *)
C5_OneRowPerUsableFeature ==
    (Built \/ status = "KeyError") =>
        /\ Len(df) = Cardinality(Usable)
        /\ \A i \in Usable :
              LET f == feed.features[i]
                  r == df[RankIn(Usable, i)]
              IN  /\ r.Place = f.properties.place
                  /\ r.Magnitude = f.properties.mag[1]
                  /\ r.Time_UTC = f.properties.time
                  /\ r.Longitude = f.geometry.coordinates[1]
                  /\ r.Latitude = f.geometry.coordinates[2]
                  /\ r.Depth_km = f.geometry.coordinates[3][1]

\* a feed of three features, the second without magnitude, the first of
\* magnitude zero
C5_Witness ==
    /\ status = "loaded"
    /\ Len(feed.features) = 3
    /\ feed.features[2].properties.mag = Null
    /\ Len(df) = 2
    /\ df[1].Magnitude = 0
    /\ df[2].Magnitude = 5

(* C6: the filtered table holds exactly the rows of the year chosen whose  *)
(* country is among those chosen, or of any country when none is chosen,   *)
(* in the table's order.                                                   *)
C6_FilterSelects ==
    Filtered =>
        /\ Len(filtered_df) = Cardinality(Selected)
        /\ \A i \in Selected : filtered_df[RankIn(Selected, i)] = df[i]

\* year 2024 and Japan or Chile, over a table with a row of 2023 and a row
\* of another country
C6_Witness ==
    /\ status = "filtered"
    /\ year_filter = 2024
    /\ country_filter = {Japan, Chile}
    /\ \E i \in 1..Len(df) : df[i].Year = 2023
    /\ \E i \in 1..Len(df) : df[i].Country \notin country_filter
    /\ Len(filtered_df) = 2
    /\ filtered_df[1].Country = Chile
    /\ filtered_df[2].Country = Japan

(* C7: the by-country view has one entry for each country of the filtered  *)
(* table, with the number of its rows, in descending order of count.       *)
C7_CountsByCountry ==
    status = "rendered" =>
        /\ {country_chart[k].Country : k \in 1..Len(country_chart)}
              = {filtered_df[i].Country : i \in 1..Len(filtered_df)}
        /\ \A k, l \in 1..Len(country_chart) :
              country_chart[k].Country = country_chart[l].Country => k = l
        /\ \A k \in 1..Len(country_chart) :
              country_chart[k].Count =
                 Cardinality({i \in 1..Len(filtered_df) :
                                 filtered_df[i].Country = country_chart[k].Country})
        /\ \A k, l \in 1..Len(country_chart) :
              k < l => country_chart[k].Count >= country_chart[l].Count

\* rows of Chile, Japan, Japan: Japan = 2 comes before Chile = 1
C7_Witness ==
    /\ status = "rendered"
    /\ Len(filtered_df) = 3
    /\ filtered_df[1].Country = Chile
    /\ country_chart = <<[Country |-> Japan, Count |-> 2],
                         [Country |-> Chile, Count |-> 1]>>

C9_LocalCalendarFields ==
    Built =>
        \A i \in 1..Len(df) :
            LET r     == df[i]
                off   == IF /\ UtcMinutes(2024, 3, 10, 8, 0) <= r.Time_UTC
                            /\ r.Time_UTC < UtcMinutes(2024, 11, 3, 7, 0)
                         THEN -300 ELSE -360
                local == r.Time_UTC + off
                hour0 == DaysFromCivil(r.Date.year, r.Date.month, r.Date.day) * 1440
                            + r.Hour * 60
            IN  /\ r.Time_Central = [instant |-> r.Time_UTC, utcoffset |-> off]
                /\ r.Hour \in 0..23
                /\ r.Date.month \in 1..12
                /\ r.Date.day \in 1..31
                /\ hour0 <= local /\ local < hour0 + 60
                /\ r.Year = r.Date.year

\* a row whose local year is 2023 while its UTC year is 2024
C9_Witness ==
    /\ Built
    /\ \E i \in 1..Len(df) :
          /\ df[i].Year = 2023
          /\ df[i].Hour = 23
          /\ df[i].Time_UTC >= UtcMinutes(2024, 1, 1, 0, 0)

(* C10: for a filtered table that is not empty, the hourly series is made  *)
(* of consecutive one-hour buckets on whole local hours, from the hour of  *)
(* the earliest row to the hour of the latest; every row is counted in     *)
(* exactly one bucket, and a bucket's count is the number of its rows.     *)
C10_HourlyBuckets ==
    (status = "rendered" /\ filtered_df # <<>>) =>
        LET at(i)    == filtered_df[i].Time_Central.instant
            rows     == 1..Len(filtered_df)
            start(k) == df_ts[k].Time_Central.instant
            holds(k, i) == start(k) <= at(i) /\ at(i) < start(k) + 60
            n        == Len(df_ts)
        IN  /\ n >= 1
            /\ \A k \in 1..n :
                  /\ Wall(df_ts[k].Time_Central) % 60 = 0
                  /\ df_ts[k].Count = Cardinality({i \in rows : holds(k, i)})
            /\ \A k \in 1..(n - 1) : start(k + 1) = start(k) + 60
            /\ \E i \in rows : holds(1, i) /\ \A j \in rows : at(i) <= at(j)
            /\ \E i \in rows : holds(n, i) /\ \A j \in rows : at(j) <= at(i)
            /\ \A i \in rows : Cardinality({k \in 1..n : holds(k, i)}) = 1

\* a series across the start of daylight time with an hour without rows
C10_Witness ==
    /\ status = "rendered"
    /\ Len(df_ts) >= 3
    /\ \E k \in 1..Len(df_ts) : df_ts[k].Count = 0
    /\ \E k \in 1..(Len(df_ts) - 1) :
          df_ts[k].Time_Central.utcoffset # df_ts[k + 1].Time_Central.utcoffset

====
